---- MODULE Spec2Model ----
(***************************************************************************)
(* High-Low card game: the game session store (startNewGame, peekMove,     *)
(* makeMove over the $gameState atom) and the card helpers it uses.        *)
(***************************************************************************)
EXTENDS Integers, Sequences, FiniteSets, TLC

VARIABLES drawDeck, stacks, won, lost, cardCounting, lastCall, player, staged,
          uiState, animationQueue, animationSettings, timers, animationLog

gameVars == <<drawDeck, stacks, won, lost, cardCounting>>
uiVars == <<uiState, animationQueue, animationSettings, timers, animationLog>>
vars == <<drawDeck, stacks, won, lost, cardCounting, lastCall, player, staged,
          uiState, animationQueue, animationSettings, timers, animationLog>>

----------------------------------------------------------------------------
(* Bounds of the exploration.                                              *)

\* Math.random() is explored for the constant values seed / NumSeeds.
NumSeeds == 2

\* shuffleDeck is explored for every sequence of random indexes on decks of
\* up to MaxShuffled cards.
MaxShuffled == 5

\* The animation manager is explored for up to MaxAnimations calls of
\* queueCardAnimation.
MaxAnimations == 4

\* The player chooses freely between a right and a wrong guess for the first
\* FreeMoves cards drawn in a session and for the last FreeMoves cards of the
\* draw pile; in between, the player keeps guessing as in the move before.
FreeMoves == 2

\* The player chooses freely among the Active stacks for the first FreeStacks
\* cards drawn in a session; afterwards the player stays on the stack of the
\* move before and, once it has Failed, goes on to the next Active stack.
FreeStacks == 1

----------------------------------------------------------------------------
(* Cards.                                                                  *)

Suits == <<"Hearts", "Diamonds", "Clubs", "Spades">>

RawRanks ==
  <<"Ace", "2", "3", "4", "5", "6", "7", "8", "9", "10", "Jack", "Queen", "King">>

rawDeck ==
  [i \in 1..(Len(Suits) * Len(RawRanks)) |->
     [suit |-> Suits[((i - 1) \div Len(RawRanks)) + 1],
      rank |-> RawRanks[((i - 1) % Len(RawRanks)) + 1]]]

\* rankOrder with the Ace counted as the lowest card.
rankOrderAceLow(rank) ==
  CASE rank = "2" -> 2
    [] rank = "3" -> 3
    [] rank = "4" -> 4
    [] rank = "5" -> 5
    [] rank = "6" -> 6
    [] rank = "7" -> 7
    [] rank = "8" -> 8
    [] rank = "9" -> 9
    [] rank = "10" -> 10
    [] rank = "Jack" -> 11
    [] rank = "Queen" -> 12
    [] rank = "King" -> 13
    [] rank = "Ace" -> 1

rankOrder(rank) ==
  CASE rank = "2" -> 2
    [] rank = "3" -> 3
    [] rank = "4" -> 4
    [] rank = "5" -> 5
    [] rank = "6" -> 6
    [] rank = "7" -> 7
    [] rank = "8" -> 8
    [] rank = "9" -> 9
    [] rank = "10" -> 10
    [] rank = "Jack" -> 11
    [] rank = "Queen" -> 12
    [] rank = "King" -> 13
    [] rank = "Ace" -> 14

compareRanks(card1, card2) ==
  LET rank1 == rankOrder(card1.rank)
      rank2 == rankOrder(card2.rank)
  IN  IF rank1 > rank2 THEN 1
      ELSE IF rank1 < rank2 THEN -1
      ELSE 0

\* getRankValue with the Ace as 1.
getRankValueAceLow(rank) ==
  CASE rank = "2" -> 2
    [] rank = "3" -> 3
    [] rank = "4" -> 4
    [] rank = "5" -> 5
    [] rank = "6" -> 6
    [] rank = "7" -> 7
    [] rank = "8" -> 8
    [] rank = "9" -> 9
    [] rank = "10" -> 10
    [] rank = "Jack" -> 11
    [] rank = "Queen" -> 12
    [] rank = "King" -> 13
    [] rank = "Ace" -> 1

getRankValue(rank) ==
  CASE rank = "2" -> 2
    [] rank = "3" -> 3
    [] rank = "4" -> 4
    [] rank = "5" -> 5
    [] rank = "6" -> 6
    [] rank = "7" -> 7
    [] rank = "8" -> 8
    [] rank = "9" -> 9
    [] rank = "10" -> 10
    [] rank = "Jack" -> 11
    [] rank = "Queen" -> 12
    [] rank = "King" -> 13
    [] rank = "Ace" -> 14

getAllRanks ==
  <<"2", "3", "4", "5", "6", "7", "8", "9", "10", "Jack", "Queen", "King", "Ace">>

----------------------------------------------------------------------------
(* Deck helpers.                                                           *)

\* Math.floor(Math.random() * currentIndex) when Math.random() = seed/NumSeeds.
randomIndexOf(seed, currentIndex) == (seed * currentIndex) \div NumSeeds

\* The swap writing only the current element.
SwapAtOverwrites(array, i, j) == [array EXCEPT ![i] = array[j]]

SwapAt(array, i, j) == [array EXCEPT ![i] = array[j], ![j] = array[i]]

\* The while loop of shuffleDeck; randomIndexes[currentIndex] is
\* Math.floor(Math.random() * currentIndex) of the iteration that starts
\* with currentIndex.
RECURSIVE shuffleLoop(_, _, _)
shuffleLoop(array, currentIndex, randomIndexes) ==
  IF currentIndex = 0 THEN array
  ELSE LET randomIndex == randomIndexes[currentIndex]
           nextIndex == currentIndex - 1
       IN  shuffleLoop(SwapAt(array, nextIndex + 1, randomIndex + 1),
                       nextIndex, randomIndexes)

\* shuffleDeck for given values of Math.floor(Math.random() * currentIndex):
\* the array it returns and the deck of the caller after the call (the loop
\* works on the copy [...deck]).
shuffleDeckWith(deck, randomIndexes) ==
  [array |-> shuffleLoop(deck, Len(deck), randomIndexes), deck |-> deck]

\* shuffleDeck when Math.random() returns the same value seed / NumSeeds in
\* every iteration.
shuffleDeck(deck, seed) ==
  shuffleDeckWith(deck, [currentIndex \in 1..Len(deck) |->
                           randomIndexOf(seed, currentIndex)]).array

\* drawCard reading the last card without removing it.
drawCardKeepsCard(deck) ==
  IF Len(deck) = 0
    THEN [thrown |-> "OutOfCardsError", deck |-> deck]
    ELSE [thrown |-> "none", card |-> deck[Len(deck)], deck |-> deck]

\* deck.pop(): the card is the last element, the deck loses it.
drawCard(deck) ==
  IF Len(deck) = 0
    THEN [thrown |-> "OutOfCardsError", deck |-> deck]
    ELSE [thrown |-> "none", card |-> deck[Len(deck)],
          deck |-> SubSeq(deck, 1, Len(deck) - 1)]

----------------------------------------------------------------------------
(* Stacks.                                                                 *)

Rows == 1..3
Cols == 1..3

\* Row-major order of the 3 x 3 grid.
Positions == [k \in 1..9 |-> <<((k - 1) \div 3) + 1, ((k - 1) % 3) + 1>>]

StackAt(stks, row, col) == stks[row][col]

\* The stack a move selects, in the stacks stks.
TargetOf(stks, move) == stks[move.stackRow][move.stackColumn]

\* The card makeMove or peekMove takes from a deck: its last element.
TopOf(deck) == deck[Len(deck)]

RECURSIVE Concat(_)
Concat(seqs) ==
  IF Len(seqs) = 0 THEN <<>> ELSE Head(seqs) \o Concat(Tail(seqs))

getAllVisibleCards(stks) ==
  Concat([k \in 1..9 |-> StackAt(stks, Positions[k][1], Positions[k][2]).cards])

CountRank(cards, rank) == Cardinality({i \in 1..Len(cards) : cards[i].rank = rank})

getCardCounts(seenCards) ==
  [k \in 1..Len(getAllRanks) |->
     LET rank == getAllRanks[k]
         total == 4
         seen == CountRank(seenCards, rank)
     IN  [rank |-> rank, total |-> total, seen |-> seen,
          remaining |-> total - seen]]

rawDeckCards == {rawDeck[i] : i \in 1..Len(rawDeck)}

emptyStacks ==
  [r \in Rows |-> [c \in Cols |-> [cards |-> <<>>, status |-> "active"]]]

initialCardCountingData ==
  [seenCards |-> <<>>, cardCounts |-> getCardCounts(<<>>), probabilities |-> "null"]

\* shuffleDeck([...rawDeck]) for each value of Math.random() explored.
shuffledRawDeck == [seed \in 0..(NumSeeds - 1) |-> shuffleDeck(rawDeck, seed)]

\* Nine drawCard calls on the shuffled deck, one per stack in row-major
\* order; the deck they leave is the draw pile.
RECURSIVE dealStacks(_, _)
dealStacks(deck, n) ==
  IF n = 0 THEN [deck |-> deck, cards |-> <<>>]
  ELSE LET draw == drawCard(deck)
           rest == dealStacks(draw.deck, n - 1)
       IN  [deck |-> rest.deck, cards |-> <<draw.card>> \o rest.cards]

initializeDeckAndStacks(seed) ==
  LET deck == shuffledRawDeck[seed]
      dealt == dealStacks(deck, 9)
  IN  [drawDeck |-> dealt.deck,
       stacks |-> [r \in Rows |-> [c \in Cols |->
                     [cards |-> <<dealt.cards[3 * (r - 1) + c]>>,
                      status |-> "active"]]]]

----------------------------------------------------------------------------
(* The game session: the $gameState atom and the calls on it.              *)

NoCard == [suit |-> "none", rank |-> "none"]
NoMove == [stackRow |-> 0, stackColumn |-> 0, highLowSame |-> "none", card |-> NoCard]
NoResult == [drawnCard |-> NoCard, wouldBeCorrect |-> FALSE]

\* $uiState.animation when no card is in flight.
initialAnimationState ==
  [isAnimating |-> FALSE, flyingCard |-> NoCard,
   targetPosition |-> [row |-> 0, column |-> 0], wasCorrectGuess |-> TRUE]

\* $animationSettings as the module creates it.
initialAnimationSettings ==
  [prefersReducedMotion |-> FALSE, pauseDuration |-> 800, animationDuration |-> 400,
   reducedPauseDuration |-> 100, reducedAnimationDuration |-> 50]

\* The record of the animations: how many queueCardAnimation accepted and
\* the ids of those whose onComplete ran, in the order it ran.
NoLog == [accepted |-> 0, completed |-> <<>>]

\* What the last call was given, threw, caught and returned.
CallRecord(op, move, thrown, caught, drawn, result) ==
  [op |-> op, move |-> move, thrown |-> thrown, caught |-> caught,
   drawn |-> drawn, result |-> result]

gameState ==
  [drawDeck |-> drawDeck, stacks |-> stacks, won |-> won, lost |-> lost,
   cardCounting |-> cardCounting]

predictedResultOf(highLowSame) ==
  IF highLowSame = "high" THEN 1 ELSE IF highLowSame = "low" THEN -1 ELSE 0

stillPlaying(stks) ==
  \E r \in Rows : \E c \in Cols : stks[r][c].status = "active"

cardCountingOf(newSeenCards) ==
  [seenCards |-> newSeenCards, cardCounts |-> getCardCounts(newSeenCards),
   probabilities |-> "null"]

\* The wrong-guess branch marking the stack failed without placing the drawn
\* card on it.
wrongGuessDiscards(currentState, deck, move, drawnCard) ==
  LET updatedStack ==
        [cards |-> currentState.stacks[move.stackRow][move.stackColumn].cards,
         status |-> "failed"]
      updatedStacks ==
        [currentState.stacks EXCEPT ![move.stackRow][move.stackColumn] = updatedStack]
      newSeenCards == Append(currentState.cardCounting.seenCards, drawnCard)
  IN  [drawDeck |-> deck,
       stacks |-> updatedStacks,
       won |-> currentState.won,
       lost |-> ~stillPlaying(updatedStacks),
       cardCounting |-> cardCountingOf(newSeenCards)]

\* The wrong-guess branch with the loss test on the stacks as they were
\* before the move.
wrongGuessStaleLoss(currentState, deck, move, drawnCard) ==
  LET updatedStack ==
        [cards |-> Append(currentState.stacks[move.stackRow][move.stackColumn].cards,
                          drawnCard),
         status |-> "failed"]
      updatedStacks ==
        [currentState.stacks EXCEPT ![move.stackRow][move.stackColumn] = updatedStack]
      newSeenCards == Append(currentState.cardCounting.seenCards, drawnCard)
  IN  [drawDeck |-> deck,
       stacks |-> updatedStacks,
       won |-> currentState.won,
       lost |-> ~stillPlaying(currentState.stacks),
       cardCounting |-> cardCountingOf(newSeenCards)]

\* The wrong-guess branch with a loss test that asks whether every stack is
\* still active.
wrongGuessEveryActive(currentState, deck, move, drawnCard) ==
  LET updatedStack ==
        [cards |-> Append(currentState.stacks[move.stackRow][move.stackColumn].cards,
                          drawnCard),
         status |-> "failed"]
      updatedStacks ==
        [currentState.stacks EXCEPT ![move.stackRow][move.stackColumn] = updatedStack]
      newSeenCards == Append(currentState.cardCounting.seenCards, drawnCard)
  IN  [drawDeck |-> deck,
       stacks |-> updatedStacks,
       won |-> currentState.won,
       lost |-> ~(\A r \in Rows : \A c \in Cols : updatedStacks[r][c].status = "active"),
       cardCounting |-> cardCountingOf(newSeenCards)]

\* The wrong-guess branch without the card-tracking update.
wrongGuessUntracked(currentState, deck, move, drawnCard) ==
  LET updatedStack ==
        [cards |-> Append(currentState.stacks[move.stackRow][move.stackColumn].cards,
                          drawnCard),
         status |-> "failed"]
      updatedStacks ==
        [currentState.stacks EXCEPT ![move.stackRow][move.stackColumn] = updatedStack]
  IN  [drawDeck |-> deck,
       stacks |-> updatedStacks,
       won |-> currentState.won,
       lost |-> ~stillPlaying(updatedStacks),
       cardCounting |-> currentState.cardCounting]

\* The wrong-guess branch; deck is currentState.drawDeck after the pop.
wrongGuess(currentState, deck, move, drawnCard) ==
  LET updatedStack ==
        [cards |-> Append(currentState.stacks[move.stackRow][move.stackColumn].cards,
                          drawnCard),
         status |-> "failed"]
      updatedStacks ==
        [currentState.stacks EXCEPT ![move.stackRow][move.stackColumn] = updatedStack]
      newSeenCards == Append(currentState.cardCounting.seenCards, drawnCard)
  IN  [drawDeck |-> deck,
       stacks |-> updatedStacks,
       won |-> currentState.won,
       lost |-> ~stillPlaying(updatedStacks),
       cardCounting |-> cardCountingOf(newSeenCards)]

\* The correct-guess branch writing the updated stack at the position with
\* row and column exchanged.
correctGuessTransposed(currentState, deck, move, drawnCard) ==
  LET updatedStack ==
        [cards |-> Append(currentState.stacks[move.stackRow][move.stackColumn].cards,
                          drawnCard),
         status |-> currentState.stacks[move.stackRow][move.stackColumn].status]
      updatedStacks ==
        [currentState.stacks EXCEPT ![move.stackColumn][move.stackRow] = updatedStack]
      newSeenCards == Append(currentState.cardCounting.seenCards, drawnCard)
  IN  [drawDeck |-> deck,
       stacks |-> updatedStacks,
       won |-> (Len(deck) = 0),
       lost |-> currentState.lost,
       cardCounting |-> cardCountingOf(newSeenCards)]

\* The correct-guess branch putting the drawn card in the place of the top
\* card instead of on it.
correctGuessReplacesTop(currentState, deck, move, drawnCard) ==
  LET cards == currentState.stacks[move.stackRow][move.stackColumn].cards
      updatedStack ==
        [cards |-> Append(SubSeq(cards, 1, Len(cards) - 1), drawnCard),
         status |-> currentState.stacks[move.stackRow][move.stackColumn].status]
      updatedStacks ==
        [currentState.stacks EXCEPT ![move.stackRow][move.stackColumn] = updatedStack]
      newSeenCards == Append(currentState.cardCounting.seenCards, drawnCard)
  IN  [drawDeck |-> deck,
       stacks |-> updatedStacks,
       won |-> (Len(deck) = 0),
       lost |-> currentState.lost,
       cardCounting |-> cardCountingOf(newSeenCards)]

\* The correct-guess branch with the win test on the deck as it was before
\* the card was drawn.
correctGuessStaleWin(currentState, deck, move, drawnCard) ==
  LET updatedStack ==
        [cards |-> Append(currentState.stacks[move.stackRow][move.stackColumn].cards,
                          drawnCard),
         status |-> currentState.stacks[move.stackRow][move.stackColumn].status]
      updatedStacks ==
        [currentState.stacks EXCEPT ![move.stackRow][move.stackColumn] = updatedStack]
      newSeenCards == Append(currentState.cardCounting.seenCards, drawnCard)
  IN  [drawDeck |-> deck,
       stacks |-> updatedStacks,
       won |-> (Len(currentState.drawDeck) = 0),
       lost |-> currentState.lost,
       cardCounting |-> cardCountingOf(newSeenCards)]

\* The correct-guess branch with a win test that is off by one card.
correctGuessEarlyWin(currentState, deck, move, drawnCard) ==
  LET updatedStack ==
        [cards |-> Append(currentState.stacks[move.stackRow][move.stackColumn].cards,
                          drawnCard),
         status |-> currentState.stacks[move.stackRow][move.stackColumn].status]
      updatedStacks ==
        [currentState.stacks EXCEPT ![move.stackRow][move.stackColumn] = updatedStack]
      newSeenCards == Append(currentState.cardCounting.seenCards, drawnCard)
  IN  [drawDeck |-> deck,
       stacks |-> updatedStacks,
       won |-> (Len(deck) <= 1),
       lost |-> currentState.lost,
       cardCounting |-> cardCountingOf(newSeenCards)]

\* The correct-guess branch; deck is currentState.drawDeck after the pop.
correctGuess(currentState, deck, move, drawnCard) ==
  LET updatedStack ==
        [cards |-> Append(currentState.stacks[move.stackRow][move.stackColumn].cards,
                          drawnCard),
         status |-> currentState.stacks[move.stackRow][move.stackColumn].status]
      updatedStacks ==
        [currentState.stacks EXCEPT ![move.stackRow][move.stackColumn] = updatedStack]
      newSeenCards == Append(currentState.cardCounting.seenCards, drawnCard)
  IN  [drawDeck |-> deck,
       stacks |-> updatedStacks,
       won |-> (Len(deck) = 0),
       lost |-> currentState.lost,
       cardCounting |-> cardCountingOf(newSeenCards)]

\* The failed-stack check with row and column exchanged.
isFailedStackTransposed(currentState, move) ==
  LET selectedStack == currentState.stacks[move.stackColumn][move.stackRow]
  IN  selectedStack.status = "failed"

\* The failed-stack check at the head of makeMove.
isFailedStack(currentState, move) ==
  LET selectedStack == currentState.stacks[move.stackRow][move.stackColumn]
  IN  selectedStack.status = "failed"

\* A catch block that passes the OutOfCardsError on to the caller.
rethrowOutOfCards(currentState) ==
  [state |-> currentState, thrown |-> "OutOfCardsError", caught |-> "none",
   drawn |-> NoCard]

\* The catch block of makeMove for an OutOfCardsError of drawCard: it logs
\* and returns, the state is left as it was.
catchOutOfCards(currentState) ==
  [state |-> currentState, thrown |-> "none", caught |-> "OutOfCardsError",
   drawn |-> NoCard]

\* makeMove drawing the card before the failed-stack check.
makeMoveOnDrawFirst(currentState, move) ==
  LET predictedResult == predictedResultOf(move.highLowSame)
      draw == drawCard(currentState.drawDeck)
  IN  IF draw.thrown = "OutOfCardsError"
        THEN catchOutOfCards(currentState)
      ELSE IF isFailedStack(currentState, move)
        THEN [state |-> currentState, thrown |-> "InvalidMoveError",
              caught |-> "none", drawn |-> NoCard]
      ELSE IF compareRanks(draw.card, move.card) # predictedResult
        THEN [state |-> wrongGuess(currentState, draw.deck, move, draw.card),
              thrown |-> "none", caught |-> "none", drawn |-> draw.card]
        ELSE [state |-> correctGuess(currentState, draw.deck, move, draw.card),
              thrown |-> "none", caught |-> "none", drawn |-> draw.card]

\* makeMove without the failed-stack check, marking the selected stack
\* active when the guess is correct.
makeMoveOnReviving(currentState, move) ==
  LET predictedResult == predictedResultOf(move.highLowSame)
      draw == drawCard(currentState.drawDeck)
  IN  IF draw.thrown = "OutOfCardsError"
        THEN catchOutOfCards(currentState)
      ELSE IF compareRanks(draw.card, move.card) # predictedResult
        THEN [state |-> wrongGuess(currentState, draw.deck, move, draw.card),
              thrown |-> "none", caught |-> "none", drawn |-> draw.card]
        ELSE [state |-> [correctGuess(currentState, draw.deck, move, draw.card)
                           EXCEPT !.stacks[move.stackRow][move.stackColumn].status =
                                    "active"],
              thrown |-> "none", caught |-> "none", drawn |-> draw.card]

\* makeMove without the failed-stack check.
makeMoveOnUnchecked(currentState, move) ==
  LET predictedResult == predictedResultOf(move.highLowSame)
      draw == drawCard(currentState.drawDeck)
  IN  IF draw.thrown = "OutOfCardsError"
        THEN catchOutOfCards(currentState)
      ELSE IF compareRanks(draw.card, move.card) # predictedResult
        THEN [state |-> wrongGuess(currentState, draw.deck, move, draw.card),
              thrown |-> "none", caught |-> "none", drawn |-> draw.card]
        ELSE [state |-> correctGuess(currentState, draw.deck, move, draw.card),
              thrown |-> "none", caught |-> "none", drawn |-> draw.card]

\* makeMove comparing the drawn card with the top card of the selected stack
\* instead of the card the move carries.
makeMoveOnTopCard(currentState, move) ==
  LET predictedResult == predictedResultOf(move.highLowSame)
      selectedStack == currentState.stacks[move.stackRow][move.stackColumn]
      draw == drawCard(currentState.drawDeck)
  IN  IF isFailedStack(currentState, move)
        THEN [state |-> currentState, thrown |-> "InvalidMoveError",
              caught |-> "none", drawn |-> NoCard]
      ELSE IF draw.thrown = "OutOfCardsError"
        THEN catchOutOfCards(currentState)
      ELSE IF compareRanks(draw.card, selectedStack.cards[Len(selectedStack.cards)])
                # predictedResult
        THEN [state |-> wrongGuess(currentState, draw.deck, move, draw.card),
              thrown |-> "none", caught |-> "none", drawn |-> draw.card]
        ELSE [state |-> correctGuess(currentState, draw.deck, move, draw.card),
              thrown |-> "none", caught |-> "none", drawn |-> draw.card]

\* makeMove as a function of the state it reads: the state it leaves, the
\* error it throws to the caller, the error it catches, and the card drawn.
makeMoveOn(currentState, move) ==
  LET predictedResult == predictedResultOf(move.highLowSame)
      draw == drawCard(currentState.drawDeck)
  IN  IF isFailedStack(currentState, move)
        THEN [state |-> currentState, thrown |-> "InvalidMoveError",
              caught |-> "none", drawn |-> NoCard]
      ELSE IF draw.thrown = "OutOfCardsError"
        THEN catchOutOfCards(currentState)
      ELSE IF compareRanks(draw.card, move.card) # predictedResult
        THEN [state |-> wrongGuess(currentState, draw.deck, move, draw.card),
              thrown |-> "none", caught |-> "none", drawn |-> draw.card]
        ELSE [state |-> correctGuess(currentState, draw.deck, move, draw.card),
              thrown |-> "none", caught |-> "none", drawn |-> draw.card]

\* peekMove with the failed-stack check of makeMove in front.
peekMoveOnActiveOnly(currentState, move) ==
  IF isFailedStack(currentState, move)
    THEN [thrown |-> "InvalidMoveError", result |-> NoResult,
          drawDeck |-> currentState.drawDeck]
  ELSE IF Len(currentState.drawDeck) = 0
    THEN [thrown |-> "OutOfCardsError", result |-> NoResult,
          drawDeck |-> currentState.drawDeck]
    ELSE LET drawnCard == currentState.drawDeck[Len(currentState.drawDeck)]
             predictedResult == predictedResultOf(move.highLowSame)
             comparisonResult == compareRanks(drawnCard, move.card)
         IN  [thrown |-> "none",
              result |-> [drawnCard |-> drawnCard,
                          wouldBeCorrect |-> (comparisonResult = predictedResult)],
              drawDeck |-> currentState.drawDeck]

\* peekMove taking the card with drawCard, which removes it from the deck.
peekMoveOnDrawing(currentState, move) ==
  IF Len(currentState.drawDeck) = 0
    THEN [thrown |-> "OutOfCardsError", result |-> NoResult,
          drawDeck |-> currentState.drawDeck]
    ELSE LET draw == drawCard(currentState.drawDeck)
             predictedResult == predictedResultOf(move.highLowSame)
             comparisonResult == compareRanks(draw.card, move.card)
         IN  [thrown |-> "none",
              result |-> [drawnCard |-> draw.card,
                          wouldBeCorrect |-> (comparisonResult = predictedResult)],
              drawDeck |-> draw.deck]

\* peekMove as a function of the state it reads.
peekMoveOn(currentState, move) ==
  IF Len(currentState.drawDeck) = 0
    THEN [thrown |-> "OutOfCardsError", result |-> NoResult,
          drawDeck |-> currentState.drawDeck]
    ELSE LET drawnCard == currentState.drawDeck[Len(currentState.drawDeck)]
             predictedResult == predictedResultOf(move.highLowSame)
             comparisonResult == compareRanks(drawnCard, move.card)
         IN  [thrown |-> "none",
              result |-> [drawnCard |-> drawnCard,
                          wouldBeCorrect |-> (comparisonResult = predictedResult)],
              drawDeck |-> currentState.drawDeck]

----------------------------------------------------------------------------
(* The player: which moves are explored.                                   *)

Predictions == {"high", "low", "same"}

ActiveIndexes(stks) ==
  {k \in 1..9 : StackAt(stks, Positions[k][1], Positions[k][2]).status = "active"}
FailedIndexes(stks) == (1..9) \ ActiveIndexes(stks)

Min(S) == CHOOSE x \in S : \A y \in S : x <= y
Max(S) == CHOOSE x \in S : \A y \in S : x >= y

\* The index of the stack a move is on.
IndexOf(move) == (move.stackRow - 1) * 3 + move.stackColumn

\* The stack the player stays on: the stack k of the move before while it is
\* Active, otherwise the next Active stack after it, going round the grid.
StayIndexes(stks, k) ==
  IF ActiveIndexes(stks) = {} THEN {}
  ELSE IF {j \in ActiveIndexes(stks) : j >= k} # {}
    THEN {Min({j \in ActiveIndexes(stks) : j >= k})}
    ELSE {Min(ActiveIndexes(stks))}

\* The stacks the player plays on: any Active stack while the choice is
\* free, then the stack the player stays on.
TargetIndexes(stks, p) ==
  IF p.draws < FreeStacks THEN ActiveIndexes(stks) ELSE StayIndexes(stks, p.stack)

\* The failed stack the player may still try: the first one.
ProbeIndexes(stks) ==
  IF FailedIndexes(stks) = {} THEN {} ELSE {Min(FailedIndexes(stks))}

\* The card the caller passes as move.card: the top card of the stack it
\* shows, or the card below it when its view of the stack is one move old.
ReferenceCards(stack) ==
  IF Len(stack.cards) = 0 THEN {rawDeck[1]}
  ELSE IF Len(stack.cards) = 1 THEN {stack.cards[1]}
  ELSE {stack.cards[Len(stack.cards)], stack.cards[Len(stack.cards) - 1]}

MoveSet(stks, indexes) ==
  UNION {{[stackRow |-> Positions[k][1], stackColumn |-> Positions[k][2],
           highLowSame |-> p, card |-> card] :
            p \in Predictions,
            card \in ReferenceCards(StackAt(stks, Positions[k][1], Positions[k][2]))} :
         k \in indexes}

\* The player of a session: the stack and the kind of the last guess that
\* drew a card, and the cards drawn.
NewPlayer == [started |-> TRUE, stack |-> 0, streak |-> "none", draws |-> 0]

\* Before the first startNewGame there is no session and no player.
NoPlayer == [started |-> FALSE, stack |-> 0, streak |-> "none", draws |-> 0]

GuessKind(move, drawn) ==
  IF compareRanks(drawn, move.card) = predictedResultOf(move.highLowSame)
    THEN "right" ELSE "wrong"

\* The player after a call of makeMove that drew the card drawn (NoCard when
\* the call drew nothing).
PlayerAfter(p, move, drawn) ==
  IF drawn = NoCard THEN p
  ELSE [started |-> p.started, stack |-> IndexOf(move),
        streak |-> GuessKind(move, drawn), draws |-> p.draws + 1]

\* Whether the player plays on the stack of a move.
PlayerPlaysOn(p, stks, move) == IndexOf(move) \in TargetIndexes(stks, p)

\* The moves the player makes in a state: any move that draws nothing, and a
\* move that draws a card when the guess is free or repeats the last one.
PlayerMakes(p, deck, move, drawn) ==
  IF drawn = NoCard \/ p.draws < FreeMoves \/ Len(deck) <= FreeMoves
    THEN TRUE
    ELSE p.streak = GuessKind(move, drawn)

\* What the caller of makeMove holds from the call before it: the result of
\* a peekMove of the same move (the card shown in flight and whether the
\* guess would be correct), or nothing.
StagedFor(call, move) ==
  IF call.op = "peekMove" /\ call.thrown = "none" /\ call.move = move
    THEN call.result ELSE NoResult

----------------------------------------------------------------------------
(* Actions.                                                                *)

Init ==
  /\ drawDeck = <<>>
  /\ stacks = emptyStacks
  /\ won = FALSE
  /\ lost = FALSE
  /\ cardCounting = initialCardCountingData
  /\ lastCall = CallRecord("none", NoMove, "none", "none", NoCard, NoResult)
  /\ player = NoPlayer
  /\ staged = NoResult
  /\ uiState = initialAnimationState
  /\ animationQueue = <<>>
  /\ animationSettings = initialAnimationSettings
  /\ timers = <<>>
  /\ animationLog = NoLog

\* startNewGame spreading the current state and leaving won and lost as
\* they are.
startNewGameKeepsFlags(seed) ==
  LET dealt == initializeDeckAndStacks(seed)
  IN  /\ drawDeck' = dealt.drawDeck
      /\ stacks' = dealt.stacks
      /\ won' = won
      /\ lost' = lost
      /\ cardCounting' = cardCountingOf(getAllVisibleCards(dealt.stacks))
      /\ lastCall' = CallRecord("startNewGame", NoMove, "none", "none", NoCard, NoResult)

startNewGame(seed) ==
  LET dealt == initializeDeckAndStacks(seed)
  IN  /\ drawDeck' = dealt.drawDeck
      /\ stacks' = dealt.stacks
      /\ won' = FALSE
      /\ lost' = FALSE
      /\ cardCounting' = cardCountingOf(getAllVisibleCards(dealt.stacks))
      /\ lastCall' = CallRecord("startNewGame", NoMove, "none", "none", NoCard, NoResult)

peekMove(move) ==
  LET peek == peekMoveOn(gameState, move)
  IN  /\ drawDeck' = peek.drawDeck
      /\ UNCHANGED <<stacks, won, lost, cardCounting>>
      /\ lastCall' = CallRecord("peekMove", move, peek.thrown, "none", NoCard, peek.result)

makeMove(move) ==
  LET outcome == makeMoveOn(gameState, move)
  IN  /\ drawDeck' = outcome.state.drawDeck
      /\ stacks' = outcome.state.stacks
      /\ won' = outcome.state.won
      /\ lost' = outcome.state.lost
      /\ cardCounting' = outcome.state.cardCounting
      /\ lastCall' = CallRecord("makeMove", move, outcome.thrown, outcome.caught,
                                outcome.drawn, NoResult)

Start ==
  \E seed \in 0..(NumSeeds - 1) :
    /\ startNewGame(seed)
    /\ player' = NewPlayer
    /\ staged' = NoResult
    /\ UNCHANGED uiVars

Peek ==
  \E move \in MoveSet(stacks, TargetIndexes(stacks, player)
                                \cup ProbeIndexes(stacks)) :
    /\ peekMove(move)
    /\ UNCHANGED player
    /\ staged' = NoResult
    /\ UNCHANGED uiVars

Commit ==
  \E move \in MoveSet(stacks, TargetIndexes(stacks, player)
                                \cup ProbeIndexes(stacks)) :
    /\ makeMove(move)
    /\ PlayerMakes(player, drawDeck, move, lastCall'.drawn)
    /\ player' = PlayerAfter(player, move, lastCall'.drawn)
    /\ staged' = StagedFor(lastCall, move)
    /\ UNCHANGED uiVars

Next == Start \/ Peek \/ Commit

Spec == Init /\ [][Next]_vars

----------------------------------------------------------------------------
(* The board: the New Game button, the guess controls of the stacks and    *)
(* the animation timer, over the same store.                               *)

\* $isAnimating of the animation manager.
isAnimating(state, queue) == state.isAnimating \/ Len(queue) > 0

startCardAnimation(card, targetRow, targetColumn, wasCorrectGuess) ==
  [isAnimating |-> TRUE, flyingCard |-> card,
   targetPosition |-> [row |-> targetRow, column |-> targetColumn],
   wasCorrectGuess |-> wasCorrectGuess]

endCardAnimation == initialAnimationState

\* An animation sequence; rects says whether fromRect and toRect are both
\* there, onComplete is the move its callback commits.
AnimationSequence(id, card, targetRow, targetColumn, wasCorrectGuess, rects, onComplete) ==
  [id |-> id, card |-> card, targetRow |-> targetRow, targetColumn |-> targetColumn,
   wasCorrectGuess |-> wasCorrectGuess, rects |-> rects, onComplete |-> onComplete]

\* $animationTimings: the durations for the motion preference of settings.
animationTimings(settings) ==
  [pauseDuration |-> IF settings.prefersReducedMotion
                       THEN settings.reducedPauseDuration ELSE settings.pauseDuration,
   animationDuration |-> IF settings.prefersReducedMotion
                           THEN settings.reducedAnimationDuration
                           ELSE settings.animationDuration,
   totalDuration |-> IF settings.prefersReducedMotion
                       THEN settings.reducedPauseDuration
                              + settings.reducedAnimationDuration + 50
                       ELSE settings.pauseDuration + settings.animationDuration + 50]

\* The 'change' listener of the media query, and the detection when the
\* module is loaded: prefersReducedMotion becomes matches.
setPrefersReducedMotion(settings, matches) ==
  [settings EXCEPT !.prefersReducedMotion = matches]

\* A pending setTimeout callback of executeCardAnimation: the animation it
\* closes over, and the delay it was set with.
PendingTimer(animation, delay) ==
  [id |-> animation.id, card |-> animation.card, targetRow |-> animation.targetRow,
   targetColumn |-> animation.targetColumn,
   wasCorrectGuess |-> animation.wasCorrectGuess, rects |-> animation.rects,
   onComplete |-> animation.onComplete, delay |-> delay]

\* The pending timers that can be the next to fire, as positions in the
\* order they were set: a timer fires before one set earlier only when its
\* delay is shorter.
FireableTimers(pending) ==
  {i \in 1..Len(pending) : \A j \in 1..(i - 1) : pending[j].delay > pending[i].delay}

RemoveAt(seq, i) == SubSeq(seq, 1, i - 1) \o SubSeq(seq, i + 1, Len(seq))

\* What the animation manager works on: $uiState.animation, $animationQueue,
\* $animationSettings and the pending setTimeout callbacks in the order they
\* were set, and the animations whose onComplete a call has run, in order.
animationManager ==
  [uiState |-> uiState, animationQueue |-> animationQueue,
   animationSettings |-> animationSettings, timers |-> timers, ran |-> <<>>]

\* processNextAnimation takes the head of the queue and executes it;
\* executeCardAnimation without rectangles runs onComplete and goes on with
\* the queue, with rectangles it starts the flight and sets the timer with
\* the totalDuration of the timings at that moment.
RECURSIVE processNextAnimation(_)
processNextAnimation(manager) ==
  IF Len(manager.animationQueue) = 0 THEN manager
  ELSE LET currentAnimation == Head(manager.animationQueue)
           taken == [manager EXCEPT !.animationQueue = Tail(manager.animationQueue)]
       IN  IF ~currentAnimation.rects
             THEN processNextAnimation(
                    [taken EXCEPT !.ran = Append(taken.ran, currentAnimation)])
             ELSE [taken EXCEPT
                     !.uiState = startCardAnimation(currentAnimation.card,
                                                    currentAnimation.targetRow,
                                                    currentAnimation.targetColumn,
                                                    currentAnimation.wasCorrectGuess),
                     !.timers = Append(taken.timers,
                                       PendingTimer(currentAnimation,
                                                    animationTimings(
                                                      taken.animationSettings
                                                    ).totalDuration))]

\* queueCardAnimation: the sequence goes to the end of the queue, and the
\* queue is processed when it was empty before.
queueCardAnimation(manager, sequence) ==
  LET currentQueue == manager.animationQueue
      queued == [manager EXCEPT !.animationQueue = Append(currentQueue, sequence)]
  IN  IF Len(currentQueue) = 0 THEN processNextAnimation(queued) ELSE queued

\* The setTimeout callback of executeCardAnimation for the pending timer
\* at position timer: endCardAnimation, onComplete, and processNextAnimation
\* when onComplete returns (returns is FALSE when it throws).
timeoutCallback(manager, timer, returns) ==
  LET animation == manager.timers[timer]
      ended == [manager EXCEPT !.timers = RemoveAt(manager.timers, timer),
                               !.uiState = endCardAnimation,
                               !.ran = Append(manager.ran, animation)]
  IN  IF returns THEN processNextAnimation(ended) ELSE ended

clearAnimationQueue(manager) ==
  [manager EXCEPT !.animationQueue = <<>>, !.uiState = endCardAnimation]

\* Whether the deck and stack elements give the rectangles of the flight.
RectsFound == BOOLEAN

\* The guess controls that act: high, low and same on every stack that has
\* cards and is Active.
ClickSet(stks) ==
  {[stackRow |-> Positions[k][1], stackColumn |-> Positions[k][2], highLowSame |-> p] :
     p \in Predictions,
     k \in {j \in ActiveIndexes(stks) :
              Len(StackAt(stks, Positions[j][1], Positions[j][2]).cards) > 0}}

\* The New Game button: onClick is startNewGame; the animation queue and
\* the timer of a card in flight are left as they are.
ClickNewGame == Start

\* handleAnimatedMove for a click on a guess control. It returns at once
\* while a card is in flight. Otherwise it builds the move from the top card
\* of the stack and peeks; with both rectangles it queues the animation
\* (which has its rectangles, so that no onComplete runs within the call);
\* without them, or when peekMove throws, it calls makeMove.
handleAnimatedMove(action, stackRow, stackColumn, rects) ==
  LET stack == stacks[stackRow][stackColumn]
      topCard == stack.cards[Len(stack.cards)]
      move == [stackRow |-> stackRow, stackColumn |-> stackColumn,
               highLowSame |-> action, card |-> topCard]
      peek == peekMoveOn(gameState, move)
      peeked == [gameState EXCEPT !.drawDeck = peek.drawDeck]
      outcome == makeMoveOn(peeked, move)
      sequence == AnimationSequence(0, peek.result.drawnCard, stackRow, stackColumn,
                                    peek.result.wouldBeCorrect, TRUE, move)
      manager == queueCardAnimation(animationManager, sequence)
  IN  /\ ~isAnimating(uiState, animationQueue)
      /\ Len(stack.cards) > 0 /\ stack.status # "failed"
      /\ IF peek.thrown = "none" /\ rects
           THEN /\ drawDeck' = peek.drawDeck
                /\ UNCHANGED <<stacks, won, lost, cardCounting>>
                /\ lastCall' = CallRecord("peekMove", move, "none", "none", NoCard,
                                          peek.result)
                /\ animationQueue' = manager.animationQueue
                /\ uiState' = manager.uiState
                /\ timers' = manager.timers
                /\ UNCHANGED <<animationSettings, animationLog>>
           ELSE /\ drawDeck' = outcome.state.drawDeck
                /\ stacks' = outcome.state.stacks
                /\ won' = outcome.state.won
                /\ lost' = outcome.state.lost
                /\ cardCounting' = outcome.state.cardCounting
                /\ lastCall' = CallRecord("makeMove", move, "none", outcome.caught,
                                          outcome.drawn, NoResult)
                /\ UNCHANGED uiVars

\* The setTimeout callback of executeCardAnimation on the board:
\* onComplete is makeMoveImmediate(move) with the move built at the click.
animationTimeout(timer) ==
  LET move == timers[timer].onComplete
      outcome == makeMoveOn(gameState, move)
      manager == timeoutCallback(animationManager, timer, outcome.thrown = "none")
  IN  /\ uiState' = manager.uiState
      /\ animationQueue' = manager.animationQueue
      /\ timers' = manager.timers
      /\ UNCHANGED <<animationSettings, animationLog>>
      /\ drawDeck' = outcome.state.drawDeck
      /\ stacks' = outcome.state.stacks
      /\ won' = outcome.state.won
      /\ lost' = outcome.state.lost
      /\ cardCounting' = outcome.state.cardCounting
      /\ lastCall' = CallRecord("makeMove", move, outcome.thrown, outcome.caught,
                                outcome.drawn, NoResult)

ClickGuess ==
  \E click \in ClickSet(stacks) : \E rects \in RectsFound :
    /\ PlayerPlaysOn(player, stacks, click)
    /\ handleAnimatedMove(click.highLowSame, click.stackRow, click.stackColumn, rects)
    /\ PlayerMakes(player, drawDeck, lastCall'.move,
                   IF lastCall'.op = "peekMove" THEN lastCall'.result.drawnCard
                   ELSE lastCall'.drawn)
    /\ player' = PlayerAfter(player, lastCall'.move, lastCall'.drawn)
    /\ UNCHANGED staged

TimerFires ==
  \E timer \in FireableTimers(timers) :
    /\ animationTimeout(timer)
    /\ player' = PlayerAfter(player, lastCall'.move, lastCall'.drawn)
    /\ UNCHANGED staged

\* The motion preference of the browser is detected or changes.
MotionPreference ==
  \E matches \in BOOLEAN :
    /\ animationSettings' = setPrefersReducedMotion(animationSettings, matches)
    /\ lastCall' = CallRecord("change", NoMove, "none", "none", NoCard, NoResult)
    /\ UNCHANGED <<drawDeck, stacks, won, lost, cardCounting, player, staged,
                   uiState, animationQueue, timers, animationLog>>

BoardNext == ClickNewGame \/ ClickGuess \/ TimerFires \/ MotionPreference

BoardSpec == Init /\ [][BoardNext]_vars

----------------------------------------------------------------------------
(* The command-line game: playGame starts one game and loops over           *)
(* displayGameState, getPlayerMove and makeMove.                            *)

\* The cards left in the draw pile after the deal.
DrawPileSize == Len(rawDeck) - Cardinality(Rows \X Cols)

\* The moves getPlayerMove can return: an Active stack with its top card,
\* and one of the three predictions.
PromptSet(stks) ==
  {[stackRow |-> Positions[k][1], stackColumn |-> Positions[k][2], highLowSame |-> p,
    card |-> TopOf(StackAt(stks, Positions[k][1], Positions[k][2]).cards)] :
     p \in Predictions, k \in ActiveIndexes(stks)}

\* The player after an iteration of the loop; draws counts the iterations,
\* and stops counting at one more than the cards of the draw pile.
CliPlayerAfter(p, move, drawn) ==
  [started |-> p.started,
   stack |-> IF drawn = NoCard THEN p.stack ELSE IndexOf(move),
   streak |-> IF drawn = NoCard THEN p.streak ELSE GuessKind(move, drawn),
   draws |-> Min({p.draws + 1, DrawPileSize + 1})]

\* playGame before the loop: at the start of main, and again after a game
\* whose loop has ended when the player confirms to play again.
CliStart ==
  /\ ~player.started \/ won \/ lost \/ ActiveIndexes(stacks) = {}
  /\ \E seed \in 0..(NumSeeds - 1) :
       /\ startNewGame(seed)
       /\ player' = NewPlayer
  /\ UNCHANGED staged
  /\ UNCHANGED uiVars

\* One iteration of the loop that does not break: displayGameState finds
\* neither won nor lost, getPlayerMove finds an Active stack, and the move is
\* given to makeMove.
CliMove ==
  /\ player.started
  /\ ~won /\ ~lost
  /\ ActiveIndexes(stacks) # {}
  /\ \E move \in PromptSet(stacks) :
       /\ PlayerPlaysOn(player, stacks, move)
       /\ makeMove(move)
       /\ PlayerMakes(player, drawDeck, move, lastCall'.drawn)
       /\ player' = CliPlayerAfter(player, move, lastCall'.drawn)
  /\ UNCHANGED staged
  /\ UNCHANGED uiVars

CliNext == CliStart \/ CliMove

CliSpec == Init /\ [][CliNext]_vars

----------------------------------------------------------------------------
(* The animation manager on its own: calls of queueCardAnimation and of    *)
(* clearAnimationQueue, and the timers; and calls of startCardAnimation    *)
(* and endCardAnimation from outside the manager.                          *)

\* The ids of a sequence of animations.
IdsOf(animations) == [i \in 1..Len(animations) |-> animations[i].id]

\* The animations a caller queues as the id-th: with or without rectangles.
AnimationInputs(id) ==
  {AnimationSequence(id, rawDeck[id], 1, 1, TRUE, rects, NoMove) : rects \in BOOLEAN}

\* The variables after a call that leaves the manager as given: the log
\* gains the animations whose onComplete ran.
ManagerBecomes(op, manager, accepted) ==
  /\ uiState' = manager.uiState
  /\ animationQueue' = manager.animationQueue
  /\ animationSettings' = manager.animationSettings
  /\ timers' = manager.timers
  /\ animationLog' = [accepted |-> animationLog.accepted + accepted,
                      completed |-> animationLog.completed \o IdsOf(manager.ran)]
  /\ lastCall' = CallRecord(op, NoMove, "none", "none", NoCard, NoResult)
  /\ UNCHANGED <<drawDeck, stacks, won, lost, cardCounting, player, staged>>

QueueAnimation ==
  /\ animationLog.accepted < MaxAnimations
  /\ \E sequence \in AnimationInputs(animationLog.accepted + 1) :
       ManagerBecomes("queueCardAnimation",
                      queueCardAnimation(animationManager, sequence), 1)

AnimationTimeout ==
  \E timer \in FireableTimers(timers) :
    ManagerBecomes("setTimeout", timeoutCallback(animationManager, timer, TRUE), 0)

ClearQueue ==
  ManagerBecomes("clearAnimationQueue", clearAnimationQueue(animationManager), 0)

\* The flights a caller of startCardAnimation asks for.
FlightInputs ==
  {startCardAnimation(card, target, target, wasCorrectGuess) :
     card \in {rawDeck[1], rawDeck[2]}, target \in {1, 2}, wasCorrectGuess \in BOOLEAN}

\* startCardAnimation called from outside the manager: it writes the flight
\* to $uiState.animation and sets no timer.
StartAnimation ==
  \E flight \in FlightInputs :
    ManagerBecomes("startCardAnimation", [animationManager EXCEPT !.uiState = flight], 0)

\* endCardAnimation called from outside the manager.
EndAnimation ==
  ManagerBecomes("endCardAnimation",
                 [animationManager EXCEPT !.uiState = endCardAnimation], 0)

AnimationNext ==
  \/ QueueAnimation \/ AnimationTimeout \/ ClearQueue \/ MotionPreference
  \/ StartAnimation \/ EndAnimation

AnimationSpec == Init /\ [][AnimationNext]_vars

\* The calls, callbacks and listener of the manager alone: the animations
\* that queueCardAnimation accepts, with nothing else writing
\* $uiState.animation.
ManagerNext == QueueAnimation \/ AnimationTimeout \/ ClearQueue \/ MotionPreference

\* A timer that is set fires.
AnimationFairSpec == Init /\ [][ManagerNext]_vars /\ WF_vars(AnimationTimeout)

----------------------------------------------------------------------------
(* shuffleDeck for every sequence of random index choices.                 *)

\* The values Math.floor(Math.random() * currentIndex) can take in the
\* iterations of a shuffle of n cards: one of 0..currentIndex-1 each.
RandomIndexChoices(n) ==
  {f \in [1..n -> 0..(n - 1)] : \A currentIndex \in 1..n : f[currentIndex] < currentIndex}

\* What is known of a call of shuffleDeck: the deck given, the random index
\* choices, the array returned and the caller's deck after the call.
ShuffleRecord(input, randomIndexes, array, deck) ==
  [input |-> input, randomIndexes |-> randomIndexes, array |-> array, deck |-> deck]

ShuffleInit ==
  /\ \E n \in 0..MaxShuffled :
       /\ drawDeck = SubSeq(rawDeck, 1, n)
       /\ lastCall \in {CallRecord("input", NoMove, "none", "none", NoCard,
                                   ShuffleRecord(SubSeq(rawDeck, 1, n), f, <<>>, <<>>)) :
                          f \in RandomIndexChoices(n)}
  /\ stacks = emptyStacks
  /\ won = FALSE
  /\ lost = FALSE
  /\ cardCounting = initialCardCountingData
  /\ player = NoPlayer
  /\ staged = NoResult
  /\ uiState = initialAnimationState
  /\ animationQueue = <<>>
  /\ animationSettings = initialAnimationSettings
  /\ timers = <<>>
  /\ animationLog = NoLog

\* shuffleDeck applied to the caller's deck with the choices of the input.
Shuffle ==
  /\ lastCall.op = "input"
  /\ \E shuffled \in {shuffleDeckWith(drawDeck, lastCall.result.randomIndexes)} :
       /\ drawDeck' = shuffled.deck
       /\ lastCall' = CallRecord("shuffleDeck", NoMove, "none", "none", NoCard,
                                 ShuffleRecord(lastCall.result.input,
                                               lastCall.result.randomIndexes,
                                               shuffled.array, shuffled.deck))
  /\ UNCHANGED <<stacks, won, lost, cardCounting, player, staged>>
  /\ UNCHANGED uiVars

ShuffleNext == Shuffle

ShuffleSpec == ShuffleInit /\ [][ShuffleNext]_vars

----------------------------------------------------------------------------
(* The outcome probabilities of a card against a population of cards.      *)

\* The quotient without the test of total: count / total for every total.
QuotientUnguarded(count, total) ==
  [num |-> count, den |-> total]

\* A quotient of two counts as calculateProbabilities returns it: count /
\* total when total > 0, else 0. It is kept as the pair of the two integers.
Quotient(count, total) ==
  IF total > 0 THEN [num |-> count, den |-> total] ELSE [num |-> 0, den |-> 1]

\* calculateProbabilities counting a card of the same rank as higher and as
\* same.
calculateProbabilitiesTiesTwice(currentCard, remainingCards) ==
  LET currentRank == getRankValue(currentCard.rank)
      cardRank == [i \in 1..Len(remainingCards) |-> getRankValue(remainingCards[i].rank)]
      higher == Cardinality({i \in 1..Len(remainingCards) : cardRank[i] >= currentRank})
      lower == Cardinality({i \in 1..Len(remainingCards) : cardRank[i] < currentRank})
      same == Cardinality({i \in 1..Len(remainingCards) : cardRank[i] = currentRank})
      total == Len(remainingCards)
  IN  [higher |-> Quotient(higher, total), lower |-> Quotient(lower, total),
       same |-> Quotient(same, total), total |-> total]

calculateProbabilities(currentCard, remainingCards) ==
  LET currentRank == getRankValue(currentCard.rank)
      cardRank == [i \in 1..Len(remainingCards) |-> getRankValue(remainingCards[i].rank)]
      higher == Cardinality({i \in 1..Len(remainingCards) : cardRank[i] > currentRank})
      lower == Cardinality({i \in 1..Len(remainingCards) :
                              ~(cardRank[i] > currentRank) /\ cardRank[i] < currentRank})
      same == Cardinality({i \in 1..Len(remainingCards) :
                             ~(cardRank[i] > currentRank) /\ ~(cardRank[i] < currentRank)})
      total == Len(remainingCards)
  IN  [higher |-> Quotient(higher, total), lower |-> Quotient(lower, total),
       same |-> Quotient(same, total), total |-> total]

\* generateFullDeck: suit by suit, the ranks in the order of getAllRanks.
generateFullDeck ==
  [i \in 1..(Len(Suits) * Len(getAllRanks)) |->
     [suit |-> Suits[((i - 1) \div Len(getAllRanks)) + 1],
      rank |-> getAllRanks[((i - 1) % Len(getAllRanks)) + 1]]]

\* getRemainingCards removing every card of a seen rank, whatever its suit.
getRemainingCardsByRank(seenCards) ==
  LET fullDeck == generateFullDeck
  IN  SelectSeq(fullDeck,
                LAMBDA card : ~(\E k \in 1..Len(seenCards) :
                                  seenCards[k].rank = card.rank))

\* getRemainingCards: the full deck without the cards that equal a seen card
\* in suit and rank, in the order of the full deck.
getRemainingCards(seenCards) ==
  LET fullDeck == generateFullDeck
  IN  SelectSeq(fullDeck,
                LAMBDA card : ~(\E k \in 1..Len(seenCards) :
                                  seenCards[k].suit = card.suit
                                    /\ seenCards[k].rank = card.rank))

\* calculateStackProbabilities: "null" for an empty or Failed stack, else the
\* probabilities of its top card against the cards not on the stacks.
calculateStackProbabilities(stks, stackRow, stackColumn, drawDeckLength) ==
  LET stack == stks[stackRow][stackColumn]
  IN  IF Len(stack.cards) = 0 \/ stack.status = "failed"
        THEN "null"
        ELSE LET topCard == stack.cards[Len(stack.cards)]
                 allVisibleCards == getAllVisibleCards(stks)
                 remainingCards == getRemainingCards(allVisibleCards)
             IN  calculateProbabilities(topCard, remainingCards)

\* The populations explored: every run of consecutive cards of a shuffled
\* deck, the empty one included.
Populations ==
  {<<>>} \cup
  {SubSeq(shuffledRawDeck[seed], i, j) :
     seed \in 0..(NumSeeds - 1), i \in 1..Len(rawDeck), j \in 1..Len(rawDeck)}

ProbabilityInit ==
  /\ drawDeck \in Populations
  /\ stacks = emptyStacks
  /\ won = FALSE
  /\ lost = FALSE
  /\ cardCounting = initialCardCountingData
  /\ lastCall \in {CallRecord("input",
                              [stackRow |-> 1, stackColumn |-> 1,
                               highLowSame |-> "none", card |-> currentCard],
                              "none", "none", NoCard, NoResult) :
                     currentCard \in {rawDeck[i] : i \in 1..Len(RawRanks)}}
  /\ player = NoPlayer
  /\ staged = NoResult
  /\ uiState = initialAnimationState
  /\ animationQueue = <<>>
  /\ animationSettings = initialAnimationSettings
  /\ timers = <<>>
  /\ animationLog = NoLog

\* calculateProbabilities applied to the card and the population of the
\* input.
Calculate ==
  /\ lastCall.op = "input"
  /\ lastCall' = CallRecord("calculateProbabilities", lastCall.move, "none", "none",
                            NoCard, calculateProbabilities(lastCall.move.card, drawDeck))
  /\ UNCHANGED <<drawDeck, stacks, won, lost, cardCounting, player, staged>>
  /\ UNCHANGED uiVars

ProbabilityNext == Calculate

ProbabilitySpec == ProbabilityInit /\ [][ProbabilityNext]_vars

----------------------------------------------------------------------------
(* The move evaluation on its own: every drawn card against every          *)
(* reference card and prediction.                                          *)

GuessInputs ==
  {CallRecord("input",
              [stackRow |-> 1, stackColumn |-> 1, highLowSame |-> p, card |-> r],
              "none", "none", d, NoResult) :
     d \in rawDeckCards, r \in rawDeckCards, p \in Predictions}

GuessInit ==
  /\ drawDeck = <<>>
  /\ stacks = emptyStacks
  /\ won = FALSE
  /\ lost = FALSE
  /\ cardCounting = initialCardCountingData
  /\ lastCall \in GuessInputs
  /\ player = NoPlayer
  /\ staged = NoResult
  /\ uiState = initialAnimationState
  /\ animationQueue = <<>>
  /\ animationSettings = initialAnimationSettings
  /\ timers = <<>>
  /\ animationLog = NoLog

\* The comparison of makeMove and peekMove applied to the input.
EvaluateGuess ==
  /\ lastCall.op = "input"
  /\ lastCall' =
       CallRecord("compareRanks", lastCall.move, "none", "none", lastCall.drawn,
                  [drawnCard |-> lastCall.drawn,
                   wouldBeCorrect |-> (GuessKind(lastCall.move, lastCall.drawn) = "right")])
  /\ UNCHANGED <<drawDeck, stacks, won, lost, cardCounting, player, staged>>
  /\ UNCHANGED uiVars

GuessNext == EvaluateGuess

GuessSpec == GuessInit /\ [][GuessNext]_vars

----------------------------------------------------------------------------
(* Properties of the game session.                                         *)

\* A session exists once startNewGame has been called.
Started == player.started

CardSuits == {"Hearts", "Diamonds", "Clubs", "Spades"}
CardRanks ==
  {"2", "3", "4", "5", "6", "7", "8", "9", "10", "Jack", "Queen", "King", "Ace"}
AllCards == {[suit |-> su, rank |-> ra] : su \in CardSuits, ra \in CardRanks}

Occurrences(cards, card) == Cardinality({i \in 1..Len(cards) : cards[i] = card})

StackCards == getAllVisibleCards(stacks)
StackCardTotal ==
  Len(stacks[1][1].cards) + Len(stacks[1][2].cards) + Len(stacks[1][3].cards)
  + Len(stacks[2][1].cards) + Len(stacks[2][2].cards) + Len(stacks[2][3].cards)
  + Len(stacks[3][1].cards) + Len(stacks[3][2].cards) + Len(stacks[3][3].cards)

AllFailed == \A r \in Rows : \A c \in Cols : stacks[r][c].status = "failed"
SomeFailed == \E r \in Rows : \E c \in Cols : stacks[r][c].status = "failed"
SomeActive == \E r \in Rows : \E c \in Cols : stacks[r][c].status = "active"

\* A step of makeMove that drew the top card of the draw pile.
DrewCard ==
  /\ lastCall'.op = "makeMove"
  /\ drawDeck # <<>>
  /\ drawDeck' = SubSeq(drawDeck, 1, Len(drawDeck) - 1)

\* The guess of a move against the drawn card, by rank value.
GuessIsCorrect(move, drawnCard) ==
  \/ move.highLowSame = "high" /\ getRankValue(drawnCard.rank) > getRankValue(move.card.rank)
  \/ move.highLowSame = "low" /\ getRankValue(drawnCard.rank) < getRankValue(move.card.rank)
  \/ move.highLowSame = "same" /\ getRankValue(drawnCard.rank) = getRankValue(move.card.rank)

\* C1: in every state of a started session the draw pile and the nine stacks
\* together hold each of the 52 suit/rank combinations exactly once, so the
\* sizes of the draw pile and of the stacks add up to 52.
C1_EveryCardExactlyOnce ==
  Started =>
    /\ \A card \in AllCards : Occurrences(drawDeck \o StackCards, card) = 1
    /\ \A i \in 1..Len(drawDeck \o StackCards) : (drawDeck \o StackCards)[i] \in AllCards
    /\ Len(drawDeck) + StackCardTotal = 52

C1_Witness ==
  /\ Started
  /\ drawDeck = <<>>
  /\ SomeFailed
  /\ \E r \in Rows : \E c \in Cols : Len(stacks[r][c].cards) > 2

\* C2: won turns true exactly in a makeMove step that draws the last card of
\* the draw pile with a correct guess; such a step always sets won, and no
\* other step (wrong guess, rejected move, empty-deck no-op, peekMove) does.
C2_WonExactlyOnLastCorrectDraw ==
  [][/\ (won' /\ ~won) =>
          /\ DrewCard
          /\ drawDeck' = <<>>
          /\ GuessIsCorrect(lastCall'.move, drawDeck[Len(drawDeck)])
     /\ (/\ DrewCard
         /\ drawDeck' = <<>>
         /\ GuessIsCorrect(lastCall'.move, drawDeck[Len(drawDeck)])) => won']_vars

C2_Witness ==
  /\ won
  /\ lastCall.op = "makeMove"
  /\ lastCall.drawn # NoCard
  /\ drawDeck = <<>>

\* C3: in every state that a step of a started session leads to, lost holds
\* if and only if all nine stacks are Failed, and lost turns true only in a
\* makeMove step.
C3_LostIffAllFailed ==
  [][/\ Started' => (lost' <=> AllFailed')
     /\ (lost' /\ ~lost) => lastCall'.op = "makeMove"]_vars

C3_Witness ==
  /\ lost
  /\ AllFailed
  /\ lastCall.op = "makeMove"
  /\ lastCall.drawn # NoCard

\* C4: whenever makeMove takes the empty-draw-pile path in a started session
\* (the targeted stack is Active and drawCard finds no card), won is true.
C4_EmptyPileImpliesWon ==
  (Started /\ lastCall.op = "makeMove" /\ lastCall.caught = "OutOfCardsError") => won

\* C5: makeMove on a stack whose status is Failed throws InvalidMoveError and
\* leaves drawDeck, stacks, won, lost and the seen cards as they were.
C5_FailedStackRejected ==
  [][(/\ lastCall'.op = "makeMove"
      /\ stacks[lastCall'.move.stackRow][lastCall'.move.stackColumn].status = "failed")
       => /\ lastCall'.thrown = "InvalidMoveError"
          /\ UNCHANGED gameVars]_vars

C5_Witness ==
  /\ lastCall.op = "makeMove"
  /\ lastCall.thrown = "InvalidMoveError"
  /\ stacks[lastCall.move.stackRow][lastCall.move.stackColumn].status = "failed"
  /\ drawDeck # <<>>
  /\ SomeActive

\* C6: makeMove on an Active stack with an empty draw pile throws nothing and
\* leaves drawDeck, stacks, won, lost and the seen cards as they were.
C6_EmptyPileNoOp ==
  [][(/\ lastCall'.op = "makeMove"
      /\ drawDeck = <<>>
      /\ stacks[lastCall'.move.stackRow][lastCall'.move.stackColumn].status = "active")
       => /\ lastCall'.thrown = "none"
          /\ UNCHANGED gameVars]_vars

C6_Witness ==
  /\ Started
  /\ lastCall.op = "makeMove"
  /\ lastCall.thrown = "none"
  /\ lastCall.drawn = NoCard
  /\ drawDeck = <<>>
  /\ stacks[lastCall.move.stackRow][lastCall.move.stackColumn].status = "active"

\* C7: won and lost are never both true.
C7_WonLostExclusive == ~(won /\ lost)

C7_Witness ==
  /\ won
  /\ ~lost
  /\ SomeFailed

\* C8: won and lost are terminal: once either holds, a makeMove changes
\* nothing of drawDeck, stacks, won, lost and the seen cards, only
\* startNewGame changes them, and it leaves a session neither won nor lost.
C8_TerminalUntilStart ==
  [][(won \/ lost) =>
       /\ lastCall'.op = "makeMove" => UNCHANGED gameVars
       /\ gameVars' # gameVars => lastCall'.op = "startNewGame"
       /\ lastCall'.op = "startNewGame" => (~won' /\ ~lost')]_vars

C8_Witness ==
  /\ won \/ lost
  /\ lastCall.op = "makeMove"
  /\ lastCall.drawn = NoCard
  /\ lastCall.caught = "OutOfCardsError" \/ lastCall.thrown = "InvalidMoveError"

\* C9: in every state of a started session the seen cards are, as a multiset,
\* the cards held by the nine stacks; startNewGame sets them to the nine
\* dealt cards and every makeMove that changes the state appends exactly the
\* card it drew, whether the guess was right or wrong.
C9_SeenCardsAreStackCards ==
  [][/\ Started' =>
          \A seen \in {cardCounting'.seenCards} :
            \A held \in {getAllVisibleCards(stacks')} :
              \A card \in AllCards : Occurrences(seen, card) = Occurrences(held, card)
     /\ lastCall'.op = "startNewGame" =>
          /\ Len(cardCounting'.seenCards) = 9
          /\ cardCounting'.seenCards = getAllVisibleCards(stacks')
     /\ (lastCall'.op = "makeMove" /\ gameVars' # gameVars) =>
          /\ drawDeck # <<>>
          /\ cardCounting'.seenCards =
               Append(cardCounting.seenCards, drawDeck[Len(drawDeck)])]_vars

C9_Witness ==
  /\ Started
  /\ Len(cardCounting.seenCards) > 9
  /\ lastCall.op = "makeMove"
  /\ lastCall.drawn # NoCard
  /\ stacks[lastCall.move.stackRow][lastCall.move.stackColumn].status = "failed"

\* C10: peekMove changes nothing of the session state, the draw pile keeps
\* its top card, and the same peekMove called again returns what it just
\* returned.
C10_PeekReadOnly ==
  [][lastCall'.op = "peekMove" =>
       /\ UNCHANGED gameVars
       /\ peekMoveOn(gameState', lastCall'.move).result = lastCall'.result
       /\ peekMoveOn(gameState', lastCall'.move).thrown = lastCall'.thrown]_vars

C10_Witness ==
  /\ lastCall.op = "peekMove"
  /\ lastCall.thrown = "none"
  /\ lastCall.result.drawnCard = drawDeck[Len(drawDeck)]

\* A makeMove of the move that the call before it peeked, peekMove having
\* returned a result.
CommitAfterPeek ==
  /\ lastCall.op = "peekMove"
  /\ lastCall.thrown = "none"
  /\ lastCall'.op = "makeMove"
  /\ lastCall'.move = lastCall.move

\* The makeMove draws exactly the card peekMove returned and appends it to
\* the targeted stack, and the stack is Active afterwards if and only if
\* peekMove returned wouldBeCorrect = TRUE.
CommitMatchesPeek ==
  /\ drawDeck # <<>>
  /\ drawDeck[Len(drawDeck)] = lastCall.result.drawnCard
  /\ lastCall'.drawn = lastCall.result.drawnCard
  /\ drawDeck' = SubSeq(drawDeck, 1, Len(drawDeck) - 1)
  /\ stacks'[lastCall.move.stackRow][lastCall.move.stackColumn].cards =
       Append(stacks[lastCall.move.stackRow][lastCall.move.stackColumn].cards,
              lastCall.result.drawnCard)
  /\ (stacks'[lastCall.move.stackRow][lastCall.move.stackColumn].status = "active")
       <=> lastCall.result.wouldBeCorrect

\* C11, as the claim states it: a makeMove of the move that the call before
\* it peeked, on any stack, draws exactly the card peekMove returned and
\* appends it to the targeted stack, and the stack stays Active if and only
\* if peekMove returned wouldBeCorrect = TRUE.
C11_CommitMatchesPeekOnAnyStack ==
  [][CommitAfterPeek => CommitMatchesPeek]_vars

\* C11, amended: a makeMove of the move that the call before it peeked draws
\* exactly the card peekMove returned, appends it to the targeted stack, and
\* leaves the stack Active if and only if peekMove returned wouldBeCorrect =
\* TRUE, when the targeted stack is Active; when it is Failed, peekMove has
\* returned a card all the same and makeMove throws InvalidMoveError, draws
\* nothing and changes nothing.
C11_CommitMatchesPeek ==
  [][CommitAfterPeek =>
       IF stacks[lastCall.move.stackRow][lastCall.move.stackColumn].status = "active"
         THEN CommitMatchesPeek
         ELSE /\ lastCall.result.drawnCard = drawDeck[Len(drawDeck)]
              /\ lastCall'.thrown = "InvalidMoveError"
              /\ lastCall'.drawn = NoCard
              /\ UNCHANGED gameVars]_vars

C11_Witness ==
  /\ lastCall.op = "makeMove"
  /\ staged # NoResult
  /\ lastCall.drawn = staged.drawnCard
  /\ ~staged.wouldBeCorrect
  /\ stacks[lastCall.move.stackRow][lastCall.move.stackColumn].status = "failed"
  /\ lastCall.move.card #
       stacks[lastCall.move.stackRow][lastCall.move.stackColumn].cards[
         Len(stacks[lastCall.move.stackRow][lastCall.move.stackColumn].cards) - 1]

\* A makeMove on a Failed stack after a peekMove of the same move that
\* returned a card: the makeMove threw and drew nothing.
C11_FailedStackWitness ==
  /\ lastCall.op = "makeMove"
  /\ lastCall.thrown = "InvalidMoveError"
  /\ staged # NoResult
  /\ drawDeck # <<>>
  /\ staged.drawnCard = drawDeck[Len(drawDeck)]

\* The rank order of the game: 2 < 3 < ... < 10 < Jack < Queen < King < Ace.
RankLadder ==
  <<"2", "3", "4", "5", "6", "7", "8", "9", "10", "Jack", "Queen", "King", "Ace">>
RankStep(rank) == CHOOSE i \in 1..Len(RankLadder) : RankLadder[i] = rank

GuessHolds(prediction, drawnRank, referenceRank) ==
  \/ prediction = "high" /\ RankStep(drawnRank) > RankStep(referenceRank)
  \/ prediction = "low" /\ RankStep(drawnRank) < RankStep(referenceRank)
  \/ prediction = "same" /\ RankStep(drawnRank) = RankStep(referenceRank)

\* C12: a move is judged correct if and only if the prediction is Higher and
\* the drawn card outranks the reference card, or Lower and the reference
\* card outranks it, or Same and the ranks are equal, in the order
\* 2 < ... < 10 < Jack < Queen < King < Ace; the suits of the two cards do
\* not matter, and exactly one of the three predictions is correct.
C12_GuessJudgedByRank ==
  lastCall.op = "compareRanks" =>
    /\ lastCall.result.wouldBeCorrect
         <=> GuessHolds(lastCall.move.highLowSame, lastCall.drawn.rank,
                        lastCall.move.card.rank)
    /\ \A su1 \in CardSuits : \A su2 \in CardSuits :
         (GuessKind([lastCall.move EXCEPT !.card.suit = su2],
                    [lastCall.drawn EXCEPT !.suit = su1]) = "right")
           <=> lastCall.result.wouldBeCorrect
    /\ Cardinality({q \in Predictions :
                      GuessKind([lastCall.move EXCEPT !.highLowSame = q],
                                lastCall.drawn) = "right"}) = 1

C12_Witness ==
  /\ lastCall.op = "compareRanks"
  /\ lastCall.move.highLowSame = "high"
  /\ lastCall.drawn.rank = "Ace"
  /\ lastCall.move.card.rank = "King"
  /\ lastCall.drawn.suit # lastCall.move.card.suit
  /\ lastCall.result.wouldBeCorrect

\* C13: startNewGame called in any state (not started, active, won or lost)
\* throws nothing and leaves nine Active stacks of one card each, a draw pile
\* of 43 cards, won = FALSE, lost = FALSE and the nine dealt cards as the
\* seen cards.
C13_StartReplacesState ==
  [][lastCall'.op = "startNewGame" =>
       /\ lastCall'.thrown = "none"
       /\ \A r \in Rows : \A c \in Cols :
            stacks'[r][c].status = "active" /\ Len(stacks'[r][c].cards) = 1
       /\ Len(drawDeck') = 43
       /\ ~won' /\ ~lost'
       /\ Len(cardCounting'.seenCards) = 9
       /\ \A r \in Rows : \A c \in Cols :
            cardCounting'.seenCards[3 * (r - 1) + c] = stacks'[r][c].cards[1]]_vars

C13_Witness ==
  /\ lastCall.op = "startNewGame"
  /\ Len(drawDeck) = 43
  /\ Len(cardCounting.seenCards) = 9
  /\ ~won /\ ~lost

IsPrefix(s, t) == Len(s) <= Len(t) /\ SubSeq(t, 1, Len(s)) = s

\* C14: when makeMove resolves a correct guess on an Active stack with a
\* non-empty draw pile, the drawn card becomes the new top card of the
\* selected stack (on top of the cards it had), the stack stays Active and
\* lost is unchanged.
C14_CorrectGuessKeepsStackActive ==
  [][(/\ lastCall'.op = "makeMove"
      /\ drawDeck # <<>>
      /\ TargetOf(stacks, lastCall'.move).status = "active"
      /\ GuessIsCorrect(lastCall'.move, TopOf(drawDeck)))
     => /\ TargetOf(stacks', lastCall'.move).cards =
             Append(TargetOf(stacks, lastCall'.move).cards, TopOf(drawDeck))
        /\ TargetOf(stacks', lastCall'.move).status = "active"
        /\ lost' = lost]_vars

C14_Witness ==
  /\ lastCall.op = "makeMove"
  /\ lastCall.drawn # NoCard
  /\ GuessIsCorrect(lastCall.move, lastCall.drawn)
  /\ TargetOf(stacks, lastCall.move).status = "active"
  /\ Len(TargetOf(stacks, lastCall.move).cards) >= 3
  /\ TopOf(TargetOf(stacks, lastCall.move).cards) = lastCall.drawn
  /\ ~lost

\* C15: when makeMove resolves an incorrect guess on an Active stack with a
\* non-empty draw pile, the drawn card is still put on the selected stack as
\* its new top card, the stack becomes Failed and won is unchanged.
C15_WrongGuessFailsStack ==
  [][(/\ lastCall'.op = "makeMove"
      /\ drawDeck # <<>>
      /\ TargetOf(stacks, lastCall'.move).status = "active"
      /\ ~GuessIsCorrect(lastCall'.move, TopOf(drawDeck)))
     => /\ TargetOf(stacks', lastCall'.move).cards =
             Append(TargetOf(stacks, lastCall'.move).cards, TopOf(drawDeck))
        /\ TargetOf(stacks', lastCall'.move).status = "failed"
        /\ won' = won]_vars

C15_Witness ==
  /\ lastCall.op = "makeMove"
  /\ lastCall.drawn # NoCard
  /\ ~GuessIsCorrect(lastCall.move, lastCall.drawn)
  /\ TargetOf(stacks, lastCall.move).status = "failed"
  /\ Len(TargetOf(stacks, lastCall.move).cards) >= 3
  /\ TopOf(TargetOf(stacks, lastCall.move).cards) = lastCall.drawn
  /\ ~won

\* C16: between two calls of startNewGame no call of makeMove or peekMove
\* makes a Failed stack Active again.
C16_FailedStaysFailed ==
  [][lastCall'.op # "startNewGame" =>
       \A r \in Rows : \A c \in Cols :
         stacks[r][c].status = "failed" => stacks'[r][c].status = "failed"]_vars

C16_Witness ==
  /\ lastCall.op = "makeMove"
  /\ lastCall.drawn # NoCard
  /\ GuessIsCorrect(lastCall.move, lastCall.drawn)
  /\ TargetOf(stacks, lastCall.move).status = "active"
  /\ Cardinality(FailedIndexes(stacks)) >= 2

\* C17: between two calls of startNewGame the cards of every stack before a
\* call are a prefix of its cards after the call, and the cards of a Failed
\* stack do not change.
C17_StacksAppendOnly ==
  [][lastCall'.op # "startNewGame" =>
       \A r \in Rows : \A c \in Cols :
         /\ IsPrefix(stacks[r][c].cards, stacks'[r][c].cards)
         /\ stacks[r][c].status = "failed" => stacks'[r][c].cards = stacks[r][c].cards]_vars

C17_Witness ==
  /\ lastCall.op = "makeMove"
  /\ lastCall.thrown = "InvalidMoveError"
  /\ Len(TargetOf(stacks, lastCall.move).cards) >= 2
  /\ \E r \in Rows : \E c \in Cols :
       stacks[r][c].status = "active" /\ Len(stacks[r][c].cards) >= 3

\* C18: for every move the board passes to makeMove (after the animation
\* through onComplete, or at once on the fallback), move.card is the top
\* card of the selected stack when makeMove evaluates it, whatever the order
\* of guess clicks, New Game clicks and animation timers.
C18_CommittedCardIsTopCard ==
  [][lastCall'.op = "makeMove" =>
       /\ Len(TargetOf(stacks, lastCall'.move).cards) > 0
       /\ lastCall'.move.card = TopOf(TargetOf(stacks, lastCall'.move).cards)]_vars

\* C19: peekMove throws OutOfCardsError exactly when the draw pile is empty;
\* with a non-empty draw pile it throws nothing and returns the last element
\* of drawDeck as drawnCard, whatever the status and the cards of the
\* selected stack.
C19_PeekThrowsIffEmptyPile ==
  [][lastCall'.op = "peekMove" =>
       /\ (lastCall'.thrown = "OutOfCardsError") <=> (drawDeck = <<>>)
       /\ drawDeck # <<>> =>
            /\ lastCall'.thrown = "none"
            /\ lastCall'.result.drawnCard = TopOf(drawDeck)]_vars

C19_Witness ==
  /\ lastCall.op = "peekMove"
  /\ lastCall.thrown = "none"
  /\ TargetOf(stacks, lastCall.move).status = "failed"
  /\ lastCall.move.card # TopOf(TargetOf(stacks, lastCall.move).cards)
  /\ lastCall.result.drawnCard = TopOf(drawDeck)

C19_EmptyPileWitness ==
  /\ lastCall.op = "peekMove"
  /\ lastCall.thrown = "OutOfCardsError"
  /\ drawDeck = <<>>

\* The sum of the three quotients of a probability calculation is 1.
SumsToOne(p) ==
  p.higher.num * p.lower.den * p.same.den
    + p.lower.num * p.higher.den * p.same.den
    + p.same.num * p.higher.den * p.lower.den
  = p.higher.den * p.lower.den * p.same.den

\* C20: for any reference card and any non-empty population,
\* calculateProbabilities returns higher, lower and same that sum to 1 (the
\* three counts sum to total: every card of the population is counted in
\* exactly one of them) and total equal to the size of the population.
C20_OutcomesPartitionPopulation ==
  (lastCall.op = "calculateProbabilities" /\ drawDeck # <<>>) =>
    /\ SumsToOne(lastCall.result)
    /\ lastCall.result.higher.num + lastCall.result.lower.num + lastCall.result.same.num
         = lastCall.result.total
    /\ lastCall.result.higher.num =
         Cardinality({i \in 1..Len(drawDeck) :
            getRankValue(drawDeck[i].rank) > getRankValue(lastCall.move.card.rank)})
    /\ lastCall.result.lower.num =
         Cardinality({i \in 1..Len(drawDeck) :
            getRankValue(drawDeck[i].rank) < getRankValue(lastCall.move.card.rank)})
    /\ lastCall.result.total = Len(drawDeck)

C20_Witness ==
  /\ lastCall.op = "calculateProbabilities"
  /\ Len(drawDeck) >= 3
  /\ lastCall.result.higher.num > 0
  /\ lastCall.result.lower.num > 0
  /\ lastCall.result.same.num > 0
  /\ lastCall.result.total = Len(drawDeck)

\* The cards of a sequence, as a set.
CardsOf(cards) == {cards[i] : i \in 1..Len(cards)}

\* C21: in every state of a started session the remaining cards derived from
\* the seen cards, and from all cards on the stacks, are exactly the cards of
\* the draw pile in some order, and calculateStackProbabilities of every
\* Active stack has total = drawDeck.length.
C21_RemainingCardsAreDrawPile ==
  Started =>
    /\ \A remaining \in {getRemainingCards(cardCounting.seenCards)} :
         CardsOf(remaining) = CardsOf(drawDeck) /\ Len(remaining) = Len(drawDeck)
    /\ \A remaining \in {getRemainingCards(getAllVisibleCards(stacks))} :
         CardsOf(remaining) = CardsOf(drawDeck) /\ Len(remaining) = Len(drawDeck)
    /\ \A r \in Rows : \A c \in Cols :
         stacks[r][c].status = "active" =>
           calculateStackProbabilities(stacks, r, c, Len(drawDeck)).total = Len(drawDeck)

C21_Witness ==
  /\ Started
  /\ lastCall.op = "makeMove"
  /\ lastCall.drawn # NoCard
  /\ SomeFailed /\ SomeActive
  /\ Len(drawDeck) < 40
  /\ Len(getRemainingCards(cardCounting.seenCards)) = Len(drawDeck)

\* A quotient that is the number 0: a zero count over a non-zero divisor.
IsZero(q) == q.num = 0 /\ q.den # 0

\* C22: for an empty population calculateProbabilities returns higher = 0,
\* lower = 0, same = 0 and total = 0 for every reference card, and divides
\* by nothing that is zero.
C22_EmptyPopulationAllZero ==
  (lastCall.op = "calculateProbabilities" /\ drawDeck = <<>>) =>
    /\ IsZero(lastCall.result.higher)
    /\ IsZero(lastCall.result.lower)
    /\ IsZero(lastCall.result.same)
    /\ lastCall.result.total = 0

C22_Witness ==
  /\ lastCall.op = "calculateProbabilities"
  /\ drawDeck = <<>>
  /\ lastCall.move.card.rank = "Ace"
  /\ lastCall.result.total = 0

RECURSIVE Factorial(_)
Factorial(n) == IF n = 0 THEN 1 ELSE n * Factorial(n - 1)

\* C23: shuffleDeck returns a sequence with the same cards as its input,
\* each as often as in the input, and leaves the input as it was; for a deck
\* of n cards there are n! sequences of random index choices and no two of
\* them give the same order, so they map one-to-one onto the n!
\* permutations.
C23_ShuffleIsBijection ==
  lastCall.op = "shuffleDeck" =>
    /\ lastCall.result.deck = lastCall.result.input
    /\ Len(lastCall.result.array) = Len(lastCall.result.input)
    /\ \A card \in CardsOf(lastCall.result.input) \cup CardsOf(lastCall.result.array) :
         Occurrences(lastCall.result.array, card) = Occurrences(lastCall.result.input, card)
    /\ Cardinality(RandomIndexChoices(Len(lastCall.result.input)))
         = Factorial(Len(lastCall.result.input))
    /\ \A other \in RandomIndexChoices(Len(lastCall.result.input)) :
         shuffleDeckWith(lastCall.result.input, other).array = lastCall.result.array
           => other = lastCall.result.randomIndexes

C23_Witness ==
  /\ lastCall.op = "shuffleDeck"
  /\ Len(lastCall.result.input) = MaxShuffled
  /\ lastCall.result.array # lastCall.result.input
  /\ lastCall.result.array[1] = lastCall.result.input[MaxShuffled]
  /\ drawDeck = lastCall.result.input

\* C24: makeMove tests the status of the selected stack before the draw
\* pile: on a Failed stack with an empty draw pile it throws
\* InvalidMoveError, it does not take the empty-pile path that catches
\* OutOfCardsError, and the state is left as it was.
C24_FailedCheckedBeforeEmptyPile ==
  [][(/\ lastCall'.op = "makeMove"
      /\ TargetOf(stacks, lastCall'.move).status = "failed"
      /\ drawDeck = <<>>)
     => /\ lastCall'.thrown = "InvalidMoveError"
        /\ lastCall'.caught = "none"
        /\ UNCHANGED gameVars]_vars

C24_Witness ==
  /\ lastCall.op = "makeMove"
  /\ lastCall.thrown = "InvalidMoveError"
  /\ lastCall.caught = "none"
  /\ TargetOf(stacks, lastCall.move).status = "failed"
  /\ drawDeck = <<>>

\* C25: a call of makeMove that changes the state removes exactly the last
\* card of the draw pile and keeps the order of the rest, puts that card on
\* the selected stack, and leaves the cards and the status of the other
\* eight stacks as they were.
C25_MoveTouchesOneStack ==
  [][(lastCall'.op = "makeMove" /\ gameVars' # gameVars)
     => /\ drawDeck # <<>>
        /\ drawDeck' = SubSeq(drawDeck, 1, Len(drawDeck) - 1)
        /\ TargetOf(stacks', lastCall'.move).cards =
             Append(TargetOf(stacks, lastCall'.move).cards, TopOf(drawDeck))
        /\ \A r \in Rows : \A c \in Cols :
             (r # lastCall'.move.stackRow \/ c # lastCall'.move.stackColumn)
               => stacks'[r][c] = stacks[r][c]]_vars

C25_Witness ==
  /\ lastCall.op = "makeMove"
  /\ lastCall.drawn # NoCard
  /\ GuessIsCorrect(lastCall.move, lastCall.drawn)
  /\ lastCall.move.stackRow # lastCall.move.stackColumn
  /\ TopOf(TargetOf(stacks, lastCall.move).cards) = lastCall.drawn
  /\ \E r \in Rows : \E c \in Cols :
       /\ (r # lastCall.move.stackRow \/ c # lastCall.move.stackColumn)
       /\ Len(stacks[r][c].cards) >= 2

\* A step in which the animation timer runs onComplete, which commits the
\* move of the animation.
AnimatedCommit == timers # <<>> /\ timers' = Tail(timers) /\ lastCall'.op = "makeMove"

\* C26: the card put on the stack when the move of an animation is committed
\* at the end of the animation is the drawnCard peekMove returned at the
\* click, and the status of the stack after it agrees with the
\* wouldBeCorrect shown in flight, whatever guess clicks and New Game clicks
\* come between the click and the timer.
C26_AnimatedCommitIsStaged ==
  [][AnimatedCommit =>
       /\ lastCall'.drawn = Head(timers).card
       /\ TargetOf(stacks', Head(timers).onComplete).cards =
            Append(TargetOf(stacks, Head(timers).onComplete).cards, Head(timers).card)
       /\ (TargetOf(stacks', Head(timers).onComplete).status = "active")
            <=> Head(timers).wasCorrectGuess]_vars

\* C27: for any sequence of queueCardAnimation calls and timer completions
\* at most one animation is executing (started, its timer not yet fired) at
\* a time: an animation queued while another is in progress starts only
\* after that one has completed.
C27_OneAnimationAtATime == Len(timers) <= 1

\* The ids of the animations whose onComplete ran.
CompletedIds == {animationLog.completed[i] : i \in 1..Len(animationLog.completed)}

\* C28: every animation accepted by queueCardAnimation eventually completes;
\* its onComplete runs exactly once; the animations complete in the order
\* they were queued; and once all have completed the queue is empty and
\* $isAnimating is false.
C28_AnimationsCompleteInOrder ==
  /\ \A id \in 1..MaxAnimations :
       (animationLog.accepted >= id) ~> (id \in CompletedIds)
  /\ [](/\ \A i \in 1..Len(animationLog.completed) :
             \A j \in 1..Len(animationLog.completed) :
               i < j => animationLog.completed[i] < animationLog.completed[j]
        /\ (Len(animationLog.completed) = animationLog.accepted
              => animationQueue = <<>> /\ ~isAnimating(uiState, animationQueue)))

\* C29: a started session ends: when the player keeps giving moves on
\* Active stacks to makeMove, won or lost is TRUE after at most 43 moves, so
\* that the loop of the command-line game does not go on asking for moves
\* that change nothing.
C29_SessionEndsWithin43Moves ==
  (Started /\ player.draws >= DrawPileSize) => (won \/ lost)

\* The count a probability stands for: probability x total.
CountOf(q, total) == (q.num * total) \div q.den

\* The number of cards of a deck for which peekMove and makeMove judge a
\* guess against the reference card correct.
JudgedCorrect(deck, highLowSame, card) ==
  Cardinality({i \in 1..Len(deck) :
                 compareRanks(deck[i], card) = predictedResultOf(highLowSame)})

\* C30: in every state of a started session with a non-empty draw pile, for
\* every Active stack, the higher, lower and same counts of
\* calculateStackProbabilities (probability x total) are the numbers of cards
\* of the draw pile for which a high, low and same guess against the top
\* card of the stack is judged correct by peekMove and makeMove.
C30_ProbabilitiesAgreeWithJudge ==
  (Started /\ drawDeck # <<>>) =>
    \A r \in Rows : \A c \in Cols :
      stacks[r][c].status = "active" =>
        \A p \in {calculateStackProbabilities(stacks, r, c, Len(drawDeck))} :
          /\ CountOf(p.higher, p.total) =
               JudgedCorrect(drawDeck, "high", TopOf(stacks[r][c].cards))
          /\ CountOf(p.lower, p.total) =
               JudgedCorrect(drawDeck, "low", TopOf(stacks[r][c].cards))
          /\ CountOf(p.same, p.total) =
               JudgedCorrect(drawDeck, "same", TopOf(stacks[r][c].cards))

C30_Witness ==
  /\ Started
  /\ lastCall.op = "makeMove"
  /\ Len(drawDeck) > 0 /\ Len(drawDeck) < 30
  /\ SomeFailed
  /\ \E r \in Rows : \E c \in Cols :
       /\ stacks[r][c].status = "active"
       /\ TopOf(stacks[r][c].cards).rank = "Ace"
       /\ JudgedCorrect(drawDeck, "low", TopOf(stacks[r][c].cards)) > 0
       /\ JudgedCorrect(drawDeck, "same", TopOf(stacks[r][c].cards)) > 0

====
